---- MODULE Spec2Model ----
(***************************************************************************)
(* Model of xrl's client.rs: the Client facade that turns typed editor     *)
(* commands into notifications and requests handed to protocol::Client.   *)
(*                                                                         *)
(* JSON values (serde_json::Value) are tagged records, futures are call    *)
(* records that are pending until the transport resolves them, and the     *)
(* transport is a log of the messages handed to it.                        *)
(***************************************************************************)
EXTENDS Integers, Sequences, FiniteSets, TLC

VARIABLES calls, wire, core

vars == <<calls, wire, core>>

(***************************************************************************)
(* Bounds                                                                  *)
(***************************************************************************)
MaxCalls == 2
MaxCatalogCalls == 1

(***************************************************************************)
(* serde_json::Value                                                       *)
(***************************************************************************)
JNull == [t |-> "null"]
JNum(n) == [t |-> "num", v |-> n]
JStr(s) == [t |-> "str", v |-> s]
JBool(b) == [t |-> "bool", v |-> b]
JArr(s) == [t |-> "arr", v |-> s]
JObj(r) == [t |-> "obj", v |-> r]
EmptyMap == <<>>

(***************************************************************************)
(* Result<T, ClientError> and the ClientError variants used by client.rs   *)
(***************************************************************************)
Ok(v) == [ok |-> TRUE, v |-> v]
Err(e) == [ok |-> FALSE, e |-> e]
Unit == [t |-> "unit"]
NotifyFailed == [kind |-> "NotifyFailed"]
RequestFailed == [kind |-> "RequestFailed"]
ErrorReturned(x) == [kind |-> "ErrorReturned", v |-> x]
SerdeError == [kind |-> "SerdeError"]

(***************************************************************************)
(* Option<T> and the typed parameters handed to the edit envelope          *)
(***************************************************************************)
None == [some |-> FALSE]
Some(x) == [some |-> TRUE, x |-> x]
AsValue(v) == [ty |-> "Value", v |-> v]
AsPair(a, b) == [ty |-> "Pair", a |-> a, b |-> b]
AsBadMap == [ty |-> "BadMap"]

\* serde_json::to_value: a Value serializes to itself, a (u64, u64) tuple to
\* a two-element array, a map whose keys are not strings is rejected.
to_value(x) ==
  CASE x.ty = "Value" -> Ok(x.v)
    [] x.ty = "Pair" -> Ok(JArr(<<JNum(x.a), JNum(x.b)>>))
    [] x.ty = "BadMap" -> Err(SerdeError)

\* ViewId as it appears on the wire ("view_id":"view-id-1")
ViewId_to_value(view_id) == JStr(view_id)

\* from_value::<ViewId>(result).map_err(From::from)
from_value_ViewId(value) ==
  IF value.t = "str" THEN Ok(value.v) ELSE Err(SerdeError)

(***************************************************************************)
(* Input domains                                                           *)
(***************************************************************************)
ViewIds == {"view-id-1", "view-id-2"}
Payloads == {JStr("view-id-1"), JNull}
Methods == {"edit", "new_view"}
InnerMethods == {"scroll"}
RawParams == {JArr(<<>>)}
TypedParams == {None, Some(AsValue(JNull)), Some(AsPair(21, 80)), Some(AsBadMap)}

\* get_edit_params that swallows a serialization failure
get_edit_params_lenient(view_id, method, params) ==
  LET sv == IF params.some THEN to_value(params.x) ELSE Ok(JArr(<<>>))
      params_value == IF sv.ok THEN sv.v ELSE JArr(<<>>)
  IN  Ok(JObj([method |-> JStr(method),
               view_id |-> ViewId_to_value(view_id),
               params |-> params_value]))

\* get_edit_params that substitutes null for an absent parameter
get_edit_params_null(view_id, method, params) ==
  LET params_value == IF params.some THEN to_value(params.x) ELSE Ok(JNull)
  IN  IF ~params_value.ok
        THEN Err(params_value.e)
        ELSE Ok(JObj([method |-> JStr(method),
                      view_id |-> ViewId_to_value(view_id),
                      params |-> params_value.v]))

(***************************************************************************)
(* get_edit_params                                                         *)
(***************************************************************************)
get_edit_params(view_id, method, params) ==
  LET params_value == IF params.some THEN to_value(params.x) ELSE Ok(JArr(<<>>))
  IN  IF ~params_value.ok
        THEN Err(params_value.e)
        ELSE Ok(JObj([method |-> JStr(method),
                      view_id |-> ViewId_to_value(view_id),
                      params |-> params_value.v]))

(***************************************************************************)
(* The dispatch layer.  A call yields a future: the messages handed to the *)
(* transport when the call is made, the transport primitive that resolves  *)
(* it, the and_then continuation, and the result if it is already known.   *)
(***************************************************************************)
future_err(e) ==
  [prim |-> "none", sent |-> <<>>, post |-> "none", result |-> <<Err(e)>>]

\* notify built on the correlated-request primitive
notify_awaits_reply(method, params) ==
  [prim |-> "request", sent |-> <<[method |-> method, params |-> params]>>,
   post |-> "none", result |-> <<>>]

notify(method, params) ==
  [prim |-> "notify", sent |-> <<[method |-> method, params |-> params]>>,
   post |-> "none", result |-> <<>>]

request(method, params) ==
  [prim |-> "request", sent |-> <<[method |-> method, params |-> params]>>,
   post |-> "none", result |-> <<>>]

\* .map_err(|_| ClientError::NotifyFailed)
notify_map_err(ack) ==
  IF ack.res = "sent" THEN Ok(Unit) ELSE Err(NotifyFailed)

\* the match with the remote error folded into the transport failure
request_then_collapsed(response) ==
  CASE response.res = "success" -> Ok(response.v)
    [] response.res = "error" -> Err(RequestFailed)
    [] response.res = "failure" -> Err(RequestFailed)

\* .then(|response| match response { ... })
request_then(response) ==
  CASE response.res = "success" -> Ok(response.v)
    [] response.res = "error" -> Err(ErrorReturned(response.v))
    [] response.res = "failure" -> Err(RequestFailed)

and_then(f, post) == [f EXCEPT !.post = post]

edit_request(view_id, method, params) ==
  LET r == get_edit_params(view_id, method, params)
  IN  IF r.ok THEN request("edit", r.v) ELSE future_err(r.e)

edit_notify(view_id, method, params) ==
  LET r == get_edit_params(view_id, method, params)
  IN  IF r.ok THEN notify("edit", r.v) ELSE future_err(r.e)

(***************************************************************************)
(* The command catalog: one operator per Client method                     *)
(***************************************************************************)
\* ModifySelection as it appears on the wire
ModifySelection_to_value(modify_selection) == JStr(modify_selection)

\* scroll with its two lines exchanged
scroll_swapped(view_id, first_line, last_line) ==
  edit_notify(view_id, "scroll", Some(AsValue(JArr(<<JNum(last_line), JNum(first_line)>>))))

scroll(view_id, first_line, last_line) ==
  edit_notify(view_id, "scroll", Some(AsValue(JArr(<<JNum(first_line), JNum(last_line)>>))))

goto_line(view_id, line) ==
  edit_notify(view_id, "goto_line", Some(AsValue(JObj([line |-> JNum(line)]))))

paste(view_id, buffer) ==
  edit_notify(view_id, "paste", Some(AsValue(JObj([chars |-> JStr(buffer)]))))

find(view_id, search_term, case_sensitive, regex, whole_words) ==
  edit_notify(view_id, "find",
              Some(AsValue(JObj([chars |-> JStr(search_term),
                                 case_sensitive |-> JBool(case_sensitive),
                                 regex |-> JBool(regex),
                                 whole_words |-> JBool(whole_words)]))))

find_other(view_id, command, wrap_around, allow_same, modify_selection) ==
  edit_notify(view_id, command,
              Some(AsValue(JObj([wrap_around |-> JBool(wrap_around),
                                 allow_same |-> JBool(allow_same),
                                 modify_selection |-> ModifySelection_to_value(modify_selection)]))))

find_next(view_id, wrap_around, allow_same, modify_selection) ==
  find_other(view_id, "find_next", wrap_around, allow_same, modify_selection)

find_prev(view_id, wrap_around, allow_same, modify_selection) ==
  find_other(view_id, "find_previous", wrap_around, allow_same, modify_selection)

highlight_find(view_id, visible) ==
  edit_notify(view_id, "highlight_find", Some(AsValue(JObj([visible |-> JBool(visible)]))))

char(view_id, ch) ==
  edit_notify(view_id, "insert", Some(AsValue(JObj([chars |-> JStr(ch)]))))

click(view_id, line, column) ==
  edit_notify(view_id, "click", Some(AsValue(JArr(<<JNum(line), JNum(column), JNum(0), JNum(1)>>))))

drag(view_id, line, column) ==
  edit_notify(view_id, "drag", Some(AsValue(JArr(<<JNum(line), JNum(column), JNum(0)>>))))

copy(view_id) ==
  edit_request(view_id, "copy", None)

cut(view_id) ==
  edit_request(view_id, "cut", None)

undo(view_id) ==
  edit_notify(view_id, "undo", None)

redo(view_id) ==
  edit_notify(view_id, "redo", None)

find_all(view_id) ==
  edit_notify(view_id, "find_all", None)

left(view_id) ==
  edit_notify(view_id, "move_left", None)

\* left_sel sending the plain move
left_sel_unmodified(view_id) ==
  edit_notify(view_id, "move_left", None)

left_sel(view_id) ==
  edit_notify(view_id, "move_left_and_modify_selection", None)

right(view_id) ==
  edit_notify(view_id, "move_right", None)

right_sel(view_id) ==
  edit_notify(view_id, "move_right_and_modify_selection", None)

up(view_id) ==
  edit_notify(view_id, "move_up", None)

up_sel(view_id) ==
  edit_notify(view_id, "move_up_and_modify_selection", None)

down(view_id) ==
  edit_notify(view_id, "move_down", None)

down_sel(view_id) ==
  edit_notify(view_id, "move_down_and_modify_selection", None)

delete(view_id) ==
  edit_notify(view_id, "delete_forward", None)

del(view_id) ==
  edit_notify(view_id, "delete_backward", None)

page_up(view_id) ==
  edit_notify(view_id, "scroll_page_up", None)

page_up_sel(view_id) ==
  edit_notify(view_id, "page_up_and_modify_selection", None)

page_down(view_id) ==
  edit_notify(view_id, "scroll_page_down", None)

page_down_sel(view_id) ==
  edit_notify(view_id, "page_down_and_modify_selection", None)

line_start(view_id) ==
  edit_notify(view_id, "move_to_left_end_of_line", None)

line_start_sel(view_id) ==
  edit_notify(view_id, "move_to_left_end_of_line_and_modify_selection", None)

line_end(view_id) ==
  edit_notify(view_id, "move_to_right_end_of_line", None)

line_end_sel(view_id) ==
  edit_notify(view_id, "move_to_right_end_of_line_and_modify_selection", None)

select_all(view_id) ==
  edit_notify(view_id, "select_all", None)

collapse_selections(view_id) ==
  edit_notify(view_id, "collapse_selections", None)

insert_newline(view_id) ==
  edit_notify(view_id, "insert_newline", None)

insert_tab(view_id) ==
  edit_notify(view_id, "insert_tab", None)

f1(view_id) ==
  edit_notify(view_id, "debug_rewrap", None)

f2(view_id) ==
  edit_notify(view_id, "debug_test_fg_spans", None)

backspace(view_id) ==
  del(view_id)

click_point_select(view_id, line, column) ==
  LET ty == "point_select"
  IN  edit_notify(view_id, "gesture",
                  Some(AsValue(JObj([line |-> JNum(line), col |-> JNum(column), ty |-> JStr(ty)]))))

click_toggle_sel(view_id, line, column) ==
  LET ty == "toggle_sel"
  IN  edit_notify(view_id, "gesture",
                  Some(AsValue(JObj([line |-> JNum(line), col |-> JNum(column), ty |-> JStr(ty)]))))

click_range_select(view_id, line, column) ==
  LET ty == "range_select"
  IN  edit_notify(view_id, "gesture",
                  Some(AsValue(JObj([line |-> JNum(line), col |-> JNum(column), ty |-> JStr(ty)]))))

click_line_select(view_id, line, column) ==
  LET ty == "range_select"
  IN  edit_notify(view_id, "gesture",
                  Some(AsValue(JObj([line |-> JNum(line), col |-> JNum(column), ty |-> JStr(ty)]))))

click_word_select(view_id, line, column) ==
  LET ty == "word_select"
  IN  edit_notify(view_id, "gesture",
                  Some(AsValue(JObj([line |-> JNum(line), col |-> JNum(column), ty |-> JStr(ty)]))))

click_multi_line_select(view_id, line, column) ==
  LET ty == "multi_line_select"
  IN  edit_notify(view_id, "gesture",
                  Some(AsValue(JObj([line |-> JNum(line), col |-> JNum(column), ty |-> JStr(ty)]))))

click_multi_word_select(view_id, line, column) ==
  LET ty == "multi_word_select"
  IN  edit_notify(view_id, "gesture",
                  Some(AsValue(JObj([line |-> JNum(line), col |-> JNum(column), ty |-> JStr(ty)]))))

\* new_view sending null when no path is given
new_view_null(file_path) ==
  LET params == IF file_path.some
                  THEN JObj([file_path |-> JStr(file_path.x)])
                  ELSE JNull
  IN  and_then(request("new_view", params), "from_value_ViewId")

new_view(file_path) ==
  LET params == IF file_path.some
                  THEN JObj([file_path |-> JStr(file_path.x)])
                  ELSE JObj(EmptyMap)
  IN  and_then(request("new_view", params), "from_value_ViewId")

close_view(view_id) ==
  notify("close_view", JObj([view_id |-> ViewId_to_value(view_id)]))

save(view_id, file_path) ==
  LET params == JObj([view_id |-> ViewId_to_value(view_id), file_path |-> JStr(file_path)])
  IN  and_then(notify("save", params), "unit")

set_theme(theme) ==
  LET params == JObj([theme_name |-> JStr(theme)])
  IN  and_then(notify("set_theme", params), "unit")

\* Map::insert of one key into a JSON object
MapInsert(m, k, v) ==
  [x \in (DOMAIN m) \cup {k} |-> IF x = k THEN v ELSE m[x]]

client_started(config_dir, client_extra_dir) ==
  LET p0 == EmptyMap
      p1 == IF config_dir.some THEN MapInsert(p0, "config_dir", JStr(config_dir.x)) ELSE p0
      p2 == IF client_extra_dir.some
              THEN MapInsert(p1, "client_extra_dir", JStr(client_extra_dir.x))
              ELSE p1
  IN  notify("client_started", JObj(p2))

start_plugin(view_id, name) ==
  LET params == JObj([view_id |-> ViewId_to_value(view_id), plugin_name |-> JStr(name)])
  IN  and_then(notify("start", params), "unit")

stop_plugin(view_id, name) ==
  LET params == JObj([view_id |-> ViewId_to_value(view_id), plugin_name |-> JStr(name)])
  IN  and_then(notify("stop", params), "unit")

notify_plugin(view_id, plugin, method, params) ==
  LET p == JObj([view_id |-> ViewId_to_value(view_id),
                 receiver |-> JStr(plugin),
                 notification |-> JObj([method |-> JStr(method), params |-> params])])
  IN  and_then(notify("plugin_rpc", p), "unit")

(***************************************************************************)
(* Input domains of the catalog commands                                   *)
(***************************************************************************)
Points == {<<3, 5>>, <<21, 80>>}
Lines == {3, 21}
Buffers == {"abc"}
Chars == {"a"}
Paths == {"foo.txt"}
OptPaths == {None, Some("foo.txt")}
Themes == {"base16"}
PluginNames == {"syntect"}
ModifySelections == {"none", "set"}

(***************************************************************************)
(* State.  calls[i] is the future returned by the i-th client call, wire   *)
(* is the sequence of messages handed to protocol::Client, core counts the *)
(* messages of wire that xi-core has consumed so far.                      *)
(***************************************************************************)
Init ==
  /\ calls = <<>>
  /\ wire = <<>>
  /\ core = 0

Pending(i) == calls[i].result = <<>>

\* the continuation chained with and_then runs on Ok only
Post(post, r) ==
  IF ~r.ok THEN r
  ELSE CASE post = "none" -> r
         [] post = "unit" -> Ok(Unit)
         [] post = "from_value_ViewId" -> from_value_ViewId(r.v)

\* the effect of a client call: the future is created and its message, if
\* any, is handed to the transport before the call returns
Issue(op, args, f) ==
  /\ calls' = Append(calls, [op |-> op, args |-> args, prim |-> f.prim, post |-> f.post,
                             outcome |-> <<>>, result |-> f.result])
  /\ wire' = wire \o [k \in 1..Len(f.sent) |->
                        [call |-> Len(calls) + 1, prim |-> f.prim,
                         method |-> f.sent[k].method, params |-> f.sent[k].params]]
  /\ UNCHANGED core

\* resolution through a slot shared by all pending requests
poll_request_shared(st, i, response) ==
  [calls |-> [j \in DOMAIN st.calls |->
                IF st.calls[j].prim = "request" /\ st.calls[j].result = <<>>
                  THEN [st.calls[j] EXCEPT
                          !.outcome = <<response>>,
                          !.result = <<Post(st.calls[j].post, request_then(response))>>]
                  ELSE st.calls[j]],
   wire |-> st.wire]

\* resolution that sends the request once more after a transport failure
poll_request_retry(st, i, response) ==
  IF response.res = "failure" /\ Cardinality({k \in DOMAIN st.wire : st.wire[k].call = i}) = 1
    THEN [calls |-> st.calls,
          wire |-> Append(st.wire, st.wire[CHOOSE k \in DOMAIN st.wire : st.wire[k].call = i])]
    ELSE [calls |-> [st.calls EXCEPT
                       ![i].outcome = <<response>>,
                       ![i].result = <<Post(st.calls[i].post, request_then(response))>>],
          wire |-> st.wire]

\* the request future of call i resolves: its own closure maps the response
poll_request(st, i, response) ==
  [calls |-> [st.calls EXCEPT ![i].outcome = <<response>>,
                              ![i].result = <<Post(st.calls[i].post, request_then(response))>>],
   wire |-> st.wire]

\* the notify future of call i resolves
poll_notify(st, i, ack) ==
  [calls |-> [st.calls EXCEPT ![i].outcome = <<ack>>,
                              ![i].result = <<Post(st.calls[i].post, notify_map_err(ack))>>],
   wire |-> st.wire]

(***************************************************************************)
(* The transport and the core                                              *)
(***************************************************************************)
Responses ==
  [res : {"success", "error"}, v : Payloads] \cup {[res |-> "failure"]}

Acks == {[res |-> "sent"], [res |-> "closed"]}

\* position in wire of the message of call i
MsgOf(i) == CHOOSE k \in DOMAIN wire : wire[k].call = i

\* xi-core consumes the next message
CoreProcess ==
  /\ core < Len(wire)
  /\ core' = core + 1
  /\ UNCHANGED <<calls, wire>>

\* the transport resolves a pending request: a reply needs the core to have
\* consumed the request, a transport failure does not
TransportReply ==
  \E i \in DOMAIN calls, response \in Responses :
    /\ calls[i].prim = "request"
    /\ Pending(i)
    /\ response.res # "failure" => MsgOf(i) <= core
    /\ LET st == poll_request([calls |-> calls, wire |-> wire], i, response)
       IN  calls' = st.calls /\ wire' = st.wire
    /\ UNCHANGED core

\* the transport reports whether a notification could be sent
TransportAck ==
  \E i \in DOMAIN calls, ack \in Acks :
    /\ calls[i].prim = "notify"
    /\ Pending(i)
    /\ LET st == poll_notify([calls |-> calls, wire |-> wire], i, ack)
       IN  calls' = st.calls /\ wire' = st.wire
    /\ UNCHANGED core

(***************************************************************************)
(* Client calls of the dispatch and envelope layers                        *)
(***************************************************************************)
Call_request ==
  \E method \in Methods, params \in RawParams :
    /\ Len(calls) < MaxCalls
    /\ Issue("request", <<method, params>>, request(method, params))

Call_notify ==
  \E method \in Methods, params \in RawParams :
    /\ Len(calls) < MaxCalls
    /\ Issue("notify", <<method, params>>, notify(method, params))

Call_edit_request ==
  \E view_id \in ViewIds, method \in InnerMethods, params \in TypedParams :
    /\ Len(calls) < MaxCalls
    /\ Issue("edit_request", <<view_id, method, params>>,
             edit_request(view_id, method, params))

Call_edit_notify ==
  \E view_id \in ViewIds, method \in InnerMethods, params \in TypedParams :
    /\ Len(calls) < MaxCalls
    /\ Issue("edit_notify", <<view_id, method, params>>,
             edit_notify(view_id, method, params))

(***************************************************************************)
(* Client calls of the command catalog                                     *)
(***************************************************************************)
Call_scroll ==
  \E view_id \in ViewIds, p \in Points :
    /\ Len(calls) < MaxCatalogCalls
    /\ Issue("scroll", <<view_id, p[1], p[2]>>, scroll(view_id, p[1], p[2]))

Call_goto_line ==
  \E view_id \in ViewIds, line \in Lines :
    /\ Len(calls) < MaxCatalogCalls
    /\ Issue("goto_line", <<view_id, line>>, goto_line(view_id, line))

Call_paste ==
  \E view_id \in ViewIds, buffer \in Buffers :
    /\ Len(calls) < MaxCatalogCalls
    /\ Issue("paste", <<view_id, buffer>>, paste(view_id, buffer))

Call_find ==
  \E view_id \in ViewIds, search_term \in Buffers, case_sensitive \in BOOLEAN,
     regex \in BOOLEAN, whole_words \in BOOLEAN :
    /\ Len(calls) < MaxCatalogCalls
    /\ Issue("find", <<view_id, search_term, case_sensitive, regex, whole_words>>,
             find(view_id, search_term, case_sensitive, regex, whole_words))

Call_find_next ==
  \E view_id \in ViewIds, wrap_around \in BOOLEAN, allow_same \in BOOLEAN,
     modify_selection \in ModifySelections :
    /\ Len(calls) < MaxCatalogCalls
    /\ Issue("find_next", <<view_id, wrap_around, allow_same, modify_selection>>,
             find_next(view_id, wrap_around, allow_same, modify_selection))

Call_find_prev ==
  \E view_id \in ViewIds, wrap_around \in BOOLEAN, allow_same \in BOOLEAN,
     modify_selection \in ModifySelections :
    /\ Len(calls) < MaxCatalogCalls
    /\ Issue("find_prev", <<view_id, wrap_around, allow_same, modify_selection>>,
             find_prev(view_id, wrap_around, allow_same, modify_selection))

Call_highlight_find ==
  \E view_id \in ViewIds, visible \in BOOLEAN :
    /\ Len(calls) < MaxCatalogCalls
    /\ Issue("highlight_find", <<view_id, visible>>, highlight_find(view_id, visible))

Call_char ==
  \E view_id \in ViewIds, ch \in Chars :
    /\ Len(calls) < MaxCatalogCalls
    /\ Issue("char", <<view_id, ch>>, char(view_id, ch))

Call_copy ==
  \E view_id \in ViewIds :
    /\ Len(calls) < MaxCatalogCalls
    /\ Issue("copy", <<view_id>>, copy(view_id))

Call_cut ==
  \E view_id \in ViewIds :
    /\ Len(calls) < MaxCatalogCalls
    /\ Issue("cut", <<view_id>>, cut(view_id))

Call_undo ==
  \E view_id \in ViewIds :
    /\ Len(calls) < MaxCatalogCalls
    /\ Issue("undo", <<view_id>>, undo(view_id))

Call_redo ==
  \E view_id \in ViewIds :
    /\ Len(calls) < MaxCatalogCalls
    /\ Issue("redo", <<view_id>>, redo(view_id))

Call_find_all ==
  \E view_id \in ViewIds :
    /\ Len(calls) < MaxCatalogCalls
    /\ Issue("find_all", <<view_id>>, find_all(view_id))

Call_left ==
  \E view_id \in ViewIds :
    /\ Len(calls) < MaxCatalogCalls
    /\ Issue("left", <<view_id>>, left(view_id))

Call_left_sel ==
  \E view_id \in ViewIds :
    /\ Len(calls) < MaxCatalogCalls
    /\ Issue("left_sel", <<view_id>>, left_sel(view_id))

Call_right ==
  \E view_id \in ViewIds :
    /\ Len(calls) < MaxCatalogCalls
    /\ Issue("right", <<view_id>>, right(view_id))

Call_right_sel ==
  \E view_id \in ViewIds :
    /\ Len(calls) < MaxCatalogCalls
    /\ Issue("right_sel", <<view_id>>, right_sel(view_id))

Call_up ==
  \E view_id \in ViewIds :
    /\ Len(calls) < MaxCatalogCalls
    /\ Issue("up", <<view_id>>, up(view_id))

Call_up_sel ==
  \E view_id \in ViewIds :
    /\ Len(calls) < MaxCatalogCalls
    /\ Issue("up_sel", <<view_id>>, up_sel(view_id))

Call_down ==
  \E view_id \in ViewIds :
    /\ Len(calls) < MaxCatalogCalls
    /\ Issue("down", <<view_id>>, down(view_id))

Call_down_sel ==
  \E view_id \in ViewIds :
    /\ Len(calls) < MaxCatalogCalls
    /\ Issue("down_sel", <<view_id>>, down_sel(view_id))

Call_backspace ==
  \E view_id \in ViewIds :
    /\ Len(calls) < MaxCatalogCalls
    /\ Issue("backspace", <<view_id>>, backspace(view_id))

Call_delete ==
  \E view_id \in ViewIds :
    /\ Len(calls) < MaxCatalogCalls
    /\ Issue("delete", <<view_id>>, delete(view_id))

Call_del ==
  \E view_id \in ViewIds :
    /\ Len(calls) < MaxCatalogCalls
    /\ Issue("del", <<view_id>>, del(view_id))

Call_page_up ==
  \E view_id \in ViewIds :
    /\ Len(calls) < MaxCatalogCalls
    /\ Issue("page_up", <<view_id>>, page_up(view_id))

Call_page_up_sel ==
  \E view_id \in ViewIds :
    /\ Len(calls) < MaxCatalogCalls
    /\ Issue("page_up_sel", <<view_id>>, page_up_sel(view_id))

Call_page_down ==
  \E view_id \in ViewIds :
    /\ Len(calls) < MaxCatalogCalls
    /\ Issue("page_down", <<view_id>>, page_down(view_id))

Call_page_down_sel ==
  \E view_id \in ViewIds :
    /\ Len(calls) < MaxCatalogCalls
    /\ Issue("page_down_sel", <<view_id>>, page_down_sel(view_id))

Call_line_start ==
  \E view_id \in ViewIds :
    /\ Len(calls) < MaxCatalogCalls
    /\ Issue("line_start", <<view_id>>, line_start(view_id))

Call_line_start_sel ==
  \E view_id \in ViewIds :
    /\ Len(calls) < MaxCatalogCalls
    /\ Issue("line_start_sel", <<view_id>>, line_start_sel(view_id))

Call_line_end ==
  \E view_id \in ViewIds :
    /\ Len(calls) < MaxCatalogCalls
    /\ Issue("line_end", <<view_id>>, line_end(view_id))

Call_line_end_sel ==
  \E view_id \in ViewIds :
    /\ Len(calls) < MaxCatalogCalls
    /\ Issue("line_end_sel", <<view_id>>, line_end_sel(view_id))

Call_select_all ==
  \E view_id \in ViewIds :
    /\ Len(calls) < MaxCatalogCalls
    /\ Issue("select_all", <<view_id>>, select_all(view_id))

Call_collapse_selections ==
  \E view_id \in ViewIds :
    /\ Len(calls) < MaxCatalogCalls
    /\ Issue("collapse_selections", <<view_id>>, collapse_selections(view_id))

Call_insert_newline ==
  \E view_id \in ViewIds :
    /\ Len(calls) < MaxCatalogCalls
    /\ Issue("insert_newline", <<view_id>>, insert_newline(view_id))

Call_insert_tab ==
  \E view_id \in ViewIds :
    /\ Len(calls) < MaxCatalogCalls
    /\ Issue("insert_tab", <<view_id>>, insert_tab(view_id))

Call_f1 ==
  \E view_id \in ViewIds :
    /\ Len(calls) < MaxCatalogCalls
    /\ Issue("f1", <<view_id>>, f1(view_id))

Call_f2 ==
  \E view_id \in ViewIds :
    /\ Len(calls) < MaxCatalogCalls
    /\ Issue("f2", <<view_id>>, f2(view_id))

Call_click ==
  \E view_id \in ViewIds, p \in Points :
    /\ Len(calls) < MaxCatalogCalls
    /\ Issue("click", <<view_id, p[1], p[2]>>, click(view_id, p[1], p[2]))

Call_click_point_select ==
  \E view_id \in ViewIds, p \in Points :
    /\ Len(calls) < MaxCatalogCalls
    /\ Issue("click_point_select", <<view_id, p[1], p[2]>>, click_point_select(view_id, p[1], p[2]))

Call_click_toggle_sel ==
  \E view_id \in ViewIds, p \in Points :
    /\ Len(calls) < MaxCatalogCalls
    /\ Issue("click_toggle_sel", <<view_id, p[1], p[2]>>, click_toggle_sel(view_id, p[1], p[2]))

Call_click_range_select ==
  \E view_id \in ViewIds, p \in Points :
    /\ Len(calls) < MaxCatalogCalls
    /\ Issue("click_range_select", <<view_id, p[1], p[2]>>, click_range_select(view_id, p[1], p[2]))

Call_click_line_select ==
  \E view_id \in ViewIds, p \in Points :
    /\ Len(calls) < MaxCatalogCalls
    /\ Issue("click_line_select", <<view_id, p[1], p[2]>>, click_line_select(view_id, p[1], p[2]))

Call_click_word_select ==
  \E view_id \in ViewIds, p \in Points :
    /\ Len(calls) < MaxCatalogCalls
    /\ Issue("click_word_select", <<view_id, p[1], p[2]>>, click_word_select(view_id, p[1], p[2]))

Call_click_multi_line_select ==
  \E view_id \in ViewIds, p \in Points :
    /\ Len(calls) < MaxCatalogCalls
    /\ Issue("click_multi_line_select", <<view_id, p[1], p[2]>>, click_multi_line_select(view_id, p[1], p[2]))

Call_click_multi_word_select ==
  \E view_id \in ViewIds, p \in Points :
    /\ Len(calls) < MaxCatalogCalls
    /\ Issue("click_multi_word_select", <<view_id, p[1], p[2]>>, click_multi_word_select(view_id, p[1], p[2]))

Call_drag ==
  \E view_id \in ViewIds, p \in Points :
    /\ Len(calls) < MaxCatalogCalls
    /\ Issue("drag", <<view_id, p[1], p[2]>>, drag(view_id, p[1], p[2]))

Call_new_view ==
  \E file_path \in OptPaths :
    /\ Len(calls) < MaxCatalogCalls
    /\ Issue("new_view", <<file_path>>, new_view(file_path))

Call_close_view ==
  \E view_id \in ViewIds :
    /\ Len(calls) < MaxCatalogCalls
    /\ Issue("close_view", <<view_id>>, close_view(view_id))

Call_save ==
  \E view_id \in ViewIds, file_path \in Paths :
    /\ Len(calls) < MaxCatalogCalls
    /\ Issue("save", <<view_id, file_path>>, save(view_id, file_path))

Call_set_theme ==
  \E theme \in Themes :
    /\ Len(calls) < MaxCatalogCalls
    /\ Issue("set_theme", <<theme>>, set_theme(theme))

Call_client_started ==
  \E config_dir \in OptPaths, client_extra_dir \in OptPaths :
    /\ Len(calls) < MaxCatalogCalls
    /\ Issue("client_started", <<config_dir, client_extra_dir>>,
             client_started(config_dir, client_extra_dir))

Call_start_plugin ==
  \E view_id \in ViewIds, name \in PluginNames :
    /\ Len(calls) < MaxCatalogCalls
    /\ Issue("start_plugin", <<view_id, name>>, start_plugin(view_id, name))

Call_stop_plugin ==
  \E view_id \in ViewIds, name \in PluginNames :
    /\ Len(calls) < MaxCatalogCalls
    /\ Issue("stop_plugin", <<view_id, name>>, stop_plugin(view_id, name))

Call_notify_plugin ==
  \E view_id \in ViewIds, plugin \in PluginNames, method \in InnerMethods, params \in RawParams :
    /\ Len(calls) < MaxCatalogCalls
    /\ Issue("notify_plugin", <<view_id, plugin, method, params>>,
             notify_plugin(view_id, plugin, method, params))

(***************************************************************************)
(* Specifications                                                          *)
(***************************************************************************)
\* concurrent callers of the dispatch and envelope layers
Next ==
  \/ Call_request
  \/ Call_notify
  \/ Call_edit_request
  \/ Call_edit_notify
  \/ CoreProcess
  \/ TransportReply
  \/ TransportAck

Spec == Init /\ [][Next]_vars

\* callers of the command catalog
NextCatalog ==
  \/ Call_scroll
  \/ Call_goto_line
  \/ Call_paste
  \/ Call_find
  \/ Call_find_next
  \/ Call_find_prev
  \/ Call_highlight_find
  \/ Call_char
  \/ Call_copy
  \/ Call_cut
  \/ Call_undo
  \/ Call_redo
  \/ Call_find_all
  \/ Call_left
  \/ Call_left_sel
  \/ Call_right
  \/ Call_right_sel
  \/ Call_up
  \/ Call_up_sel
  \/ Call_down
  \/ Call_down_sel
  \/ Call_backspace
  \/ Call_delete
  \/ Call_del
  \/ Call_page_up
  \/ Call_page_up_sel
  \/ Call_page_down
  \/ Call_page_down_sel
  \/ Call_line_start
  \/ Call_line_start_sel
  \/ Call_line_end
  \/ Call_line_end_sel
  \/ Call_select_all
  \/ Call_collapse_selections
  \/ Call_insert_newline
  \/ Call_insert_tab
  \/ Call_f1
  \/ Call_f2
  \/ Call_click
  \/ Call_click_point_select
  \/ Call_click_toggle_sel
  \/ Call_click_range_select
  \/ Call_click_line_select
  \/ Call_click_word_select
  \/ Call_click_multi_line_select
  \/ Call_click_multi_word_select
  \/ Call_drag
  \/ Call_new_view
  \/ Call_close_view
  \/ Call_save
  \/ Call_set_theme
  \/ Call_client_started
  \/ Call_start_plugin
  \/ Call_stop_plugin
  \/ Call_notify_plugin
  \/ CoreProcess
  \/ TransportReply
  \/ TransportAck

SpecCatalog == Init /\ [][NextCatalog]_vars

(***************************************************************************)
(* Properties                                                              *)
(***************************************************************************)
MsgsOf(i) == {k \in DOMAIN wire : wire[k].call = i}

Done(i) == Len(calls[i].result) = 1

Resolved(i) == Len(calls[i].outcome) = 1

RequestOps == {"request", "edit_request"}

EnvelopeOps == {"edit_request", "edit_notify"}

\* the typed parameter of an envelope call cannot be serialized
Unserializable(params) == params.some /\ params.x.ty = "BadMap"

\* C1: the result of a request is Ok(v) when the transport resolved it to a
\* remote success with payload v, Err(ErrorReturned(x)) when it resolved it to
\* a remote error with payload x, and Err(RequestFailed) when the transport
\* failed; the three cases are never confused.
C1_RequestOutcome ==
  \A i \in DOMAIN calls :
    (calls[i].op \in RequestOps /\ Resolved(i)) =>
      /\ Done(i)
      /\ LET o == calls[i].outcome[1]
             r == calls[i].result[1]
         IN  /\ o.res = "success" => r = [ok |-> TRUE, v |-> o.v]
             /\ o.res = "error" =>
                  r = [ok |-> FALSE, e |-> [kind |-> "ErrorReturned", v |-> o.v]]
             /\ o.res = "failure" => r = [ok |-> FALSE, e |-> [kind |-> "RequestFailed"]]

\* one request answered with a remote error, another one failed in transport
C1_Witness ==
  \E i, j \in DOMAIN calls :
    /\ calls[i].op = "request" /\ Resolved(i) /\ calls[i].outcome[1].res = "error"
    /\ calls[i].outcome[1].v = JStr("view-id-1")
    /\ calls[j].op = "request" /\ Resolved(j) /\ calls[j].outcome[1].res = "failure"

\* C2: when the typed parameter of edit_request or edit_notify does not
\* serialize, no message of that call is handed to the transport and the
\* returned future already carries the serialization error.
C2_NoSendOnSerializationFailure ==
  \A i \in DOMAIN calls :
    (calls[i].op \in EnvelopeOps /\ Unserializable(calls[i].args[3])) =>
      /\ MsgsOf(i) = {}
      /\ calls[i].prim = "none"
      /\ calls[i].result = <<[ok |-> FALSE, e |-> [kind |-> "SerdeError"]]>>

\* both envelope calls failed to serialize and nothing reached the transport
C2_Witness ==
  /\ Len(calls) = 2
  /\ calls[1].op = "edit_request" /\ Unserializable(calls[1].args[3])
  /\ calls[2].op = "edit_notify" /\ Unserializable(calls[2].args[3])
  /\ wire = <<>>

\* C3: a step that resolves one pending request gives that request the
\* outcome of its own resolution and leaves every other request as it was,
\* in particular still pending if it was pending.
C3_IndependentResolution ==
  [][\A i \in DOMAIN calls :
       (calls[i].prim = "request" /\ Pending(i) /\ calls'[i] # calls[i]) =>
         /\ Len(calls'[i].outcome) = 1
         /\ calls'[i].result = <<request_then(calls'[i].outcome[1])>>
         /\ \A j \in DOMAIN calls : j # i => calls'[j] = calls[j]]_vars

\* two requests against the same view, the later one resolved first
C3_Witness ==
  /\ Len(calls) = 2
  /\ calls[1].op = "edit_request" /\ calls[2].op = "edit_request"
  /\ calls[1].args[1] = calls[2].args[1]
  /\ calls[1].prim = "request" /\ Pending(1)
  /\ Resolved(2) /\ calls[2].outcome[1].res = "error"

\* the params member the envelope must carry for a typed parameter
ExpectedParams(params) ==
  IF ~params.some THEN [t |-> "arr", v |-> <<>>]
  ELSE IF params.x.ty = "Value" THEN params.x.v
  ELSE [t |-> "arr", v |-> <<[t |-> "num", v |-> params.x.a], [t |-> "num", v |-> params.x.b]>>]

\* the envelope of call i is {method, view_id, params} built from its arguments
EnvelopeShape(i) ==
  /\ Cardinality(MsgsOf(i)) = 1
  /\ \A k \in MsgsOf(i) :
       /\ wire[k].method = "edit"
       /\ wire[k].params.t = "obj"
       /\ DOMAIN wire[k].params.v = {"method", "view_id", "params"}
       /\ wire[k].params.v.method = [t |-> "str", v |-> calls[i].args[2]]
       /\ wire[k].params.v.view_id = [t |-> "str", v |-> calls[i].args[1]]
       /\ wire[k].params.v.params = ExpectedParams(calls[i].args[3])

\* C4 as stated: the envelope is {method, view_id, params} and params is
\* never null, whatever parameter is given.
C4_Original ==
  \A i \in DOMAIN calls :
    (calls[i].op \in EnvelopeOps /\ ~Unserializable(calls[i].args[3])) =>
      /\ EnvelopeShape(i)
      /\ \A k \in MsgsOf(i) : wire[k].params.v.params # [t |-> "null"]

\* C4: the envelope is {method, view_id, params} with params the serialized
\* parameter when one is given and [] when none is given; params is never
\* omitted, and it is null only when the given parameter serializes to null.
C4_EnvelopeParams ==
  \A i \in DOMAIN calls :
    (calls[i].op \in EnvelopeOps /\ ~Unserializable(calls[i].args[3])) =>
      /\ EnvelopeShape(i)
      /\ \A k \in MsgsOf(i) :
           wire[k].params.v.params = [t |-> "null"] =>
             (calls[i].args[3].some /\ calls[i].args[3].x = [ty |-> "Value", v |-> [t |-> "null"]])

\* one envelope without parameter and one with a typed pair
C4_Witness ==
  /\ Len(calls) = 2 /\ Len(wire) = 2
  /\ calls[1].op = "edit_notify" /\ ~calls[1].args[3].some
  /\ wire[1].params.v.params = [t |-> "arr", v |-> <<>>]
  /\ calls[2].op = "edit_request" /\ calls[2].args[3] = Some(AsPair(21, 80))

\* C5: every client call has handed at most one message to the transport,
\* whatever the outcomes were, and every message is one method name with one
\* parameter value.
C5_NoRetry ==
  /\ \A i \in DOMAIN calls : Cardinality(MsgsOf(i)) <= 1
  /\ Len(wire) <= Len(calls)
  /\ \A k \in DOMAIN wire :
       /\ wire[k].call \in DOMAIN calls
       /\ wire[k].method \in Methods
       /\ wire[k].params.t \in {"null", "num", "str", "bool", "arr", "obj"}

\* a request failed in transport and a notification could not be sent
C5_Witness ==
  /\ Len(calls) = 2 /\ Len(wire) = 2
  /\ calls[1].result = <<Err(RequestFailed)>>
  /\ calls[2].result = <<Err(NotifyFailed)>>

\* C6: notify hands exactly one message to the fire-and-forget primitive and
\* its result is decided by the transport's report alone: Ok(()) when the
\* send completed, Err(NotifyFailed) when it could not be completed.
C6_NotifyOutcome ==
  \A i \in DOMAIN calls :
    calls[i].op = "notify" =>
      /\ Cardinality(MsgsOf(i)) = 1
      /\ \A k \in MsgsOf(i) :
           /\ wire[k].prim = "notify"
           /\ wire[k].method = calls[i].args[1]
           /\ wire[k].params = calls[i].args[2]
      /\ Done(i) <=> Resolved(i)
      /\ Resolved(i) =>
           calls[i].result[1] = IF calls[i].outcome[1].res = "sent"
                                  THEN [ok |-> TRUE, v |-> [t |-> "unit"]]
                                  ELSE [ok |-> FALSE, e |-> [kind |-> "NotifyFailed"]]

\* a notification succeeded although the core has not consumed any message
C6_Witness ==
  \E i \in DOMAIN calls :
    /\ calls[i].op = "notify"
    /\ calls[i].result = <<Ok(Unit)>>
    /\ core = 0

\* the commands that go through the edit envelope
LifecycleOps ==
  {"new_view", "close_view", "save", "set_theme", "client_started",
   "start_plugin", "stop_plugin", "notify_plugin"}

DispatchOps == {"request", "notify", "edit_request", "edit_notify"}

EditCommand(i) == calls[i].op \notin (LifecycleOps \cup DispatchOps)

\* C7: every per-view command sends exactly one message, with outer method
\* "edit" and params {method, view_id, params} carrying the caller's view id;
\* scroll sends "scroll" [a, b], click sends "click" [l, c, 0, 1] and
\* click_word_select sends "gesture" {line, col, ty: "word_select"}.
C7_CatalogEnvelope ==
  \A i \in DOMAIN calls :
    EditCommand(i) =>
      /\ Cardinality(MsgsOf(i)) = 1
      /\ \A k \in MsgsOf(i) :
           LET inner == wire[k].params.v
               num(n) == [t |-> "num", v |-> n]
           IN  /\ wire[k].method = "edit"
               /\ wire[k].params.t = "obj"
               /\ DOMAIN inner = {"method", "view_id", "params"}
               /\ inner.method.t = "str"
               /\ inner.view_id = [t |-> "str", v |-> calls[i].args[1]]
               /\ inner.params.t \in {"arr", "obj"}
               /\ calls[i].op = "scroll" =>
                    /\ inner.method.v = "scroll"
                    /\ inner.params = [t |-> "arr", v |-> <<num(calls[i].args[2]), num(calls[i].args[3])>>]
               /\ calls[i].op = "click" =>
                    /\ inner.method.v = "click"
                    /\ inner.params = [t |-> "arr", v |-> <<num(calls[i].args[2]), num(calls[i].args[3]),
                                                          num(0), num(1)>>]
               /\ calls[i].op = "click_word_select" =>
                    /\ inner.method.v = "gesture"
                    /\ inner.params = [t |-> "obj",
                                       v |-> [line |-> num(calls[i].args[2]),
                                              col |-> num(calls[i].args[3]),
                                              ty |-> [t |-> "str", v |-> "word_select"]]]

\* scroll("view-id-2", 21, 80) has been sent
C7_Witness ==
  /\ Len(calls) = 1 /\ Len(wire) = 1
  /\ calls[1].op = "scroll" /\ calls[1].args = <<"view-id-2", 21, 80>>
  /\ wire[1].params.v.view_id.v = "view-id-2"

\* C8: new_view issues one request "new_view", outside the edit envelope,
\* with params {} when no path is given and {file_path: p} otherwise, and
\* resolves to the view identifier decoded from the reply payload.
C8_NewView ==
  \A i \in DOMAIN calls :
    calls[i].op = "new_view" =>
      /\ Cardinality(MsgsOf(i)) = 1
      /\ \A k \in MsgsOf(i) :
           /\ wire[k].prim = "request"
           /\ wire[k].method = "new_view"
           /\ wire[k].params =
                IF calls[i].args[1].some
                  THEN [t |-> "obj", v |-> [file_path |-> [t |-> "str", v |-> calls[i].args[1].x]]]
                  ELSE [t |-> "obj", v |-> <<>>]
      /\ (Resolved(i) /\ calls[i].outcome[1].res = "success"
            /\ calls[i].outcome[1].v.t = "str") =>
           calls[i].result = <<[ok |-> TRUE, v |-> calls[i].outcome[1].v.v]>>

\* new_view(None) resolved to the view identifier of the reply
C8_Witness ==
  /\ Len(calls) = 1
  /\ calls[1].op = "new_view" /\ ~calls[1].args[1].some
  /\ calls[1].result = <<Ok("view-id-1")>>

\* the plain move command of each selection-extending command
PlainOf ==
  [left_sel |-> "left", right_sel |-> "right", up_sel |-> "up", down_sel |-> "down",
   page_up_sel |-> "page_up", page_down_sel |-> "page_down",
   line_start_sel |-> "line_start", line_end_sel |-> "line_end"]

\* the plain move commands by name
MoveCommand(op, view_id) ==
  CASE op = "left" -> left(view_id)
    [] op = "right" -> right(view_id)
    [] op = "up" -> up(view_id)
    [] op = "down" -> down(view_id)
    [] op = "page_up" -> page_up(view_id)
    [] op = "page_down" -> page_down(view_id)
    [] op = "line_start" -> line_start(view_id)
    [] op = "line_end" -> line_end(view_id)

\* inner method of the single message a command hands over
InnerOf(f) == f.sent[1].params.v.method.v

SelSuffix == "_and_modify_selection"

\* C9 as stated: each of the eight selection-extending commands sends the
\* inner method of its plain move command followed by "_and_modify_selection".
C9_Original ==
  \A i \in DOMAIN calls :
    calls[i].op \in DOMAIN PlainOf =>
      \A k \in MsgsOf(i) :
        wire[k].params.v.method.v =
          InnerOf(MoveCommand(PlainOf[calls[i].op], calls[i].args[1])) \o SelSuffix

\* C9: for left, right, up, down, line-start and line-end the
\* selection-extending command sends the inner method of the plain command
\* followed by "_and_modify_selection"; page_up and page_down send
\* "scroll_page_up" and "scroll_page_down" while page_up_sel and page_down_sel
\* send "page_up_and_modify_selection" and "page_down_and_modify_selection".
C9_SelectionVariants ==
  \A i \in DOMAIN calls :
    /\ calls[i].op \in (DOMAIN PlainOf) \ {"page_up_sel", "page_down_sel"} =>
         \A k \in MsgsOf(i) :
           wire[k].params.v.method.v =
             InnerOf(MoveCommand(PlainOf[calls[i].op], calls[i].args[1])) \o SelSuffix
    /\ calls[i].op = "page_up_sel" =>
         \A k \in MsgsOf(i) : wire[k].params.v.method.v = "page_up" \o SelSuffix
    /\ calls[i].op = "page_down_sel" =>
         \A k \in MsgsOf(i) : wire[k].params.v.method.v = "page_down" \o SelSuffix
    /\ calls[i].op = "page_up" =>
         \A k \in MsgsOf(i) : wire[k].params.v.method.v = "scroll_page_up"
    /\ calls[i].op = "page_down" =>
         \A k \in MsgsOf(i) : wire[k].params.v.method.v = "scroll_page_down"

\* left_sel has been sent
C9_Witness ==
  /\ Len(calls) = 1 /\ Len(wire) = 1
  /\ calls[1].op = "left_sel"
  /\ wire[1].params.v.method.v = "move_left_and_modify_selection"

GestureOps ==
  {"click_point_select", "click_toggle_sel", "click_range_select", "click_line_select",
   "click_word_select", "click_multi_line_select", "click_multi_word_select"}

\* the gesture commands by name
GestureCommand(op, view_id, line, column) ==
  CASE op = "click_point_select" -> click_point_select(view_id, line, column)
    [] op = "click_toggle_sel" -> click_toggle_sel(view_id, line, column)
    [] op = "click_range_select" -> click_range_select(view_id, line, column)
    [] op = "click_line_select" -> click_line_select(view_id, line, column)
    [] op = "click_word_select" -> click_word_select(view_id, line, column)
    [] op = "click_multi_line_select" -> click_multi_line_select(view_id, line, column)
    [] op = "click_multi_word_select" -> click_multi_word_select(view_id, line, column)

\* C10: for the same view, line and column no other gesture command sends
\* the envelope that a gesture command has sent.
C10_GesturesDistinct ==
  \A i \in DOMAIN calls :
    calls[i].op \in GestureOps =>
      \A k \in MsgsOf(i) :
        \A g \in GestureOps \ {calls[i].op} :
          GestureCommand(g, calls[i].args[1], calls[i].args[2], calls[i].args[3]).sent
            # <<[method |-> wire[k].method, params |-> wire[k].params]>>

====
